---- MODULE Spec2Model ----
(***************************************************************************)
(* A model of geph4-client's ClientCache (src/geph4-client/src/cache.rs):  *)
(* the TTL cache over the AcidJson store (get_cached, get_cached_stale,    *)
(* get_cached_maybe_stale), the public API built on it (get_auth_token,    *)
(* get_exits, get_free_exits, get_bridges, purge_bridges) and the blind    *)
(* signature token acquisition (get_token_fresh).                          *)
(*                                                                         *)
(* Strings that take part in key construction are sequences of one         *)
(* character strings, so that to_key concatenates as format! does.         *)
(* A call of an async API function occupies a slot of `calls`; one action  *)
(* is one poll of the call's future that makes progress: everything the    *)
(* code does between two suspension points happens in one step.            *)
(***************************************************************************)
EXTENDS Integers, Sequences, FiniteSets, TLC

VARIABLES
    database,    \* AcidJson<BTreeMap<String, Bytes>>: composite key -> record
    clock,       \* SystemTime::now(), seconds since the epoch (non-decreasing)
    ticks,       \* how many times the clock has advanced (bounds the model)
    force_sync,  \* username of each constructed ClientCache -> its force_sync
    calls,       \* call slot -> the state of the API call in flight in it
    rng,         \* how many values rand::thread_rng() has produced so far
    purged       \* history: the composite keys purge_bridges was called for
                 \* with no get_bridges having looked them up since

vars == <<database, clock, ticks, force_sync, calls, rng, purged>>

---------------------------------------------------------------------------
(* Bounds of the model *)

\* advances of the clock
MaxTicks == 2
\* values drawn from the random number generator
MaxDraws == 6

---------------------------------------------------------------------------
(* Program constants *)

TTL_AUTH == 86400
TTL_EXITS == 3600
TTL_FREE_EXITS == 3600
TTL_BRIDGES == 300
\* seconds per mizaru epoch, and the width of the `as u16` cast
EPOCH_SECS == 86400
U16 == 65536

KEY_AUTH_TOKEN ==
    <<"c","a","c","h","e",".","a","u","t","h","_","t","o","k","e","n">>
KEY_EXITS == <<"c","a","c","h","e",".","e","x","i","t","s">>
KEY_FREE_EXITS ==
    <<"c","a","c","h","e",".","f","r","e","e","e","x","i","t","s">>
KEY_BRIDGES_PREFIX ==
    <<"c","a","c","h","e",".","b","r","i","d","g","e","s",".">>

\* format!("cache.bridges.{}", exit_hostname)
BridgesKey(exit_hostname) == KEY_BRIDGES_PREFIX \o exit_hostname

LEVELS == <<"plus", "free">>

\* (mutant) the two long-term keys are taken the wrong way round
MizaruPk_Swapped(level) == IF level = "plus" THEN "free_pk" ELSE "plus_pk"

\* the long-term public key get_token_fresh selects for a level
MizaruPk(level) == IF level = "plus" THEN "plus_pk" ELSE "free_pk"

---------------------------------------------------------------------------
(* The binder: what a request can come back with.  A response is           *)
(* [t, v]: a timeout of the 120 s NETWORK_TIMEOUT, a BinderError, or a     *)
(* BinderResponse of some kind with its payload.                           *)

Resp(t, v) == [t |-> t, v |-> v]

ExitLists == {"E1", "E2"}
BridgeLists == {"B1", "B2"}
Subkeys == {"sk"}
\* who made the blind signature of an AuthenticateResp
Signers == {"plus_pk", "free_pk", "forged"}

Failures == {Resp("timeout", ""), Resp("err", "WrongLevel"), Resp("err", "Other")}

ExitsResponses ==
    Failures \cup {Resp("GetExitsResp", e) : e \in ExitLists}
             \cup {Resp("Okay", "")}
BridgesResponses ==
    Failures \cup {Resp("GetBridgesResp", b) : b \in BridgeLists}
             \cup {Resp("Okay", "")}
EpochKeyResponses ==
    Failures \cup {Resp("GetEpochKeyResp", s) : s \in Subkeys}
             \cup {Resp("Okay", "")}
AuthResponses ==
    Failures \cup {Resp("AuthenticateResp", s) : s \in Signers}
             \cup {Resp("Okay", "")}

---------------------------------------------------------------------------
(* anyhow::Result<T>.  `how` and `prior` are bookkeeping for the           *)
(* properties: how the value was obtained ("hit", "fresh", "stale",        *)
(* "error") and, once the call has returned, the record that was stored    *)
(* under its key just before (a set of at most one record).                *)

Ok(v, how) == [ok |-> TRUE, v |-> v, how |-> how, prior |-> {}]
Err(e) == [ok |-> FALSE, v |-> [error |-> e], how |-> "error", prior |-> {}]
NoRes == [ok |-> FALSE, v |-> [error |-> ""], how |-> "none", prior |-> {}]

\* a Vec<ExitDescriptor> or Vec<BridgeDescriptor>: the list the binder sent
Vec(list) == [list |-> list]

NoToken ==
    [user_info |-> "", level |-> "", epoch |-> 0, unblinded_digest |-> <<>>,
     unblinded_signature |-> [key |-> "", msg |-> <<>>]]

IdleCall ==
    [op |-> "none", user |-> <<>>, host |-> <<>>, pc |-> "idle",
     timer |-> "none", deadline |-> 0, level |-> 0, rnd |-> 0, epoch |-> 0,
     digest |-> <<>>, unblinder |-> 0, tok |-> NoToken, sent |-> <<>>,
     res |-> NoRes]

\* (mutant) the result is handed over but the future and its branches are
\* kept running
Return_KeepsRunning(cr, r, prior) ==
    [cr EXCEPT !.res = [r EXCEPT !.prior = prior]]

\* the future has returned r: its locals are dropped
Return(cr, r, prior) ==
    [cr EXCEPT !.pc = "done", !.res = [r EXCEPT !.prior = prior],
               !.timer = "none", !.deadline = 0,
               !.level = 0, !.rnd = 0, !.epoch = 0, !.digest = <<>>,
               !.unblinder = 0, !.tok = NoToken]

---------------------------------------------------------------------------
(* The store *)

EmptyDb == [k \in {} |-> 0]

\* BTreeMap::insert under the write lock: replaces the whole entry
Insert(db, k, rec) ==
    [x \in (DOMAIN db) \cup {k} |-> IF x = k THEN rec ELSE db[x]]

\* (mutant) every bridge list of the store goes, whatever its hostname
Remove_EveryBridgeList(db, k) ==
    [x \in {y \in DOMAIN db : db[y].by[1] = KEY_AUTH_TOKEN
                               \/ db[y].by[1] = KEY_EXITS
                               \/ db[y].by[1] = KEY_FREE_EXITS} |-> db[x]]

\* BTreeMap::remove under the write lock
Remove(db, k) == [x \in (DOMAIN db) \ {k} |-> db[x]]

\* format!("{}-{}", key, self.username)
to_key(key, username) == key \o <<"-">> \o username

\* the (value, timestamp) pair get_cached serializes; `by` records for
\* which (logical key, username) the entry was written
Record(fresh, deadline, by) == [val |-> fresh, ts |-> deadline, by |-> by]

\* the record stored under k, if any
Prior(db, k) == IF k \in DOMAIN db THEN {db[k]} ELSE {}

---------------------------------------------------------------------------
(* The cache engine *)

\* (mutant) the ttl is left out of the comparison
IsFresh_NoTtl(now, timeout, ttl) == now < timeout

\* get_cached: is a record with this timestamp still within its ttl
IsFresh(now, timeout, ttl) == now < timeout + ttl

\* (mutant) a stored value is returned whatever its age
CacheHit_AnyAge(db, k, fs, ttl) == ~fs /\ k \in DOMAIN db

\* get_cached: the stored value is returned without awaiting the fallback
CacheHit(db, k, fs, ttl) ==
    /\ ~fs
    /\ k \in DOMAIN db
    /\ IsFresh(clock, db[k].ts, ttl)

\* (mutant) force_sync is not consulted
get_cached_stale_IgnoresForceSync(db, fs, k) ==
    IF k \in DOMAIN db THEN {db[k]} ELSE {}

\* get_cached_stale: Option<T> as a set of at most one stored record
get_cached_stale(db, fs, k) ==
    IF fs THEN {}
    ELSE IF k \in DOMAIN db THEN {db[k]} ELSE {}

\* (mutant) a failed refresh evicts the record of the key
AfterFallback_EvictOnError(db, k, r, deadline, by) ==
    IF r.ok THEN Insert(db, k, Record(r.v, deadline, by)) ELSE Remove(db, k)

\* (mutant) a refresh keeps the timestamp of the record it replaces
AfterFallback_KeepTs(db, k, r, deadline, by) ==
    IF r.ok
    THEN Insert(db, k, Record(r.v, IF k \in DOMAIN db THEN db[k].ts ELSE deadline, by))
    ELSE db

\* (mutant) the record is stamped with the time of the write
AfterFallback_WriteTime(db, k, r, deadline, by) ==
    IF r.ok THEN Insert(db, k, Record(r.v, clock, by)) ELSE db

\* get_cached after `fallback.await`: the store once the fallback has
\* resolved to r (an Err leaves through `?` before the insert)
AfterFallback(db, k, r, deadline, by) ==
    IF r.ok THEN Insert(db, k, Record(r.v, deadline, by)) ELSE db

\* (mutant) a failed fallback is turned into an empty success
GetCachedReturn_Swallow(r) ==
    IF r.ok THEN Ok(r.v, "fresh") ELSE Ok(Vec(""), "fresh")

\* get_cached after `fallback.await`: what the call returns
GetCachedReturn(r) == IF r.ok THEN Ok(r.v, "fresh") ELSE r

\* (mutant) without a stale value the block returns an error
StaleBranch_ErrWhenNone(db, fs, k) ==
    IF get_cached_stale(db, fs, k) = {}
    THEN {Err("no stale value available")}
    ELSE {Ok(rec.val, "stale") : rec \in get_cached_stale(db, fs, k)}

\* the async block of get_cached_maybe_stale once its Timer has elapsed:
\* the results it is ready with (none: it awaits future::pending())
StaleBranch(db, fs, k) ==
    {Ok(rec.val, "stale") : rec \in get_cached_stale(db, fs, k)}

\* (mutant) the second branch is preferred when both are ready
or_PrefersSecond(first, second) == IF second # {} THEN second ELSE first

\* FutureExt::or on one poll: `first` and `second` are the results the two
\* branches are ready with (empty: pending); the first branch is polled first
or(first, second) == IF first # {} THEN first ELSE second

---------------------------------------------------------------------------
(* The fallbacks made of a single binder request *)

\* get_exits_fresh on the response to GetExits
get_exits_fresh(resp) ==
    IF resp.t = "timeout" THEN Err("timeout")
    ELSE IF resp.t = "err" THEN Err(resp.v)
    ELSE IF resp.t = "GetExitsResp" THEN Ok(Vec(resp.v), "fresh")
    ELSE Err("unexpected response")

\* get_free_exits_fresh on the response to GetFreeExits
get_free_exits_fresh(resp) ==
    IF resp.t = "timeout" THEN Err("timeout")
    ELSE IF resp.t = "err" THEN Err(resp.v)
    ELSE IF resp.t = "GetExitsResp" THEN Ok(Vec(resp.v), "fresh")
    ELSE Err("unexpected response")

\* the async block of get_bridges on the response to GetBridges
get_bridges_fresh(resp) ==
    IF resp.t = "timeout" THEN Err("timeout")
    ELSE IF resp.t = "err" THEN Err(resp.v)
    ELSE IF resp.t = "GetBridgesResp" THEN Ok(Vec(resp.v), "fresh")
    ELSE Err("invalid response")

\* the logical key, the ttl and the fallback of the get_cached a call is in
InTokenPhase(cr) == cr.pc \in {"GetEpochKey", "Authenticate"}

LogicalKey(cr) ==
    IF cr.op = "get_exits" THEN KEY_EXITS
    ELSE IF cr.op = "get_free_exits" THEN KEY_FREE_EXITS
    ELSE IF cr.op = "get_bridges" /\ ~InTokenPhase(cr) THEN BridgesKey(cr.host)
    ELSE KEY_AUTH_TOKEN

CallKey(cr) == to_key(LogicalKey(cr), cr.user)

Fallback(cr, resp) ==
    IF cr.op = "get_exits" THEN get_exits_fresh(resp)
    ELSE IF cr.op = "get_free_exits" THEN get_free_exits_fresh(resp)
    ELSE get_bridges_fresh(resp)

\* the first poll of get_cached_maybe_stale(key, fallback, ttl): get_cached
\* returns the stored value, or captures the deadline and sends the
\* fallback's request; then the other branch starts its Timer
MaybeStaleBegin(cr, db, key, ttl, request, awaiting) ==
    LET k == to_key(key, cr.user) IN
    IF CacheHit(db, k, force_sync[cr.user], ttl)
    THEN Return(cr, Ok(db[k].val, "hit"), Prior(db, k))
    ELSE [cr EXCEPT !.pc = awaiting, !.deadline = clock, !.timer = "armed",
                    !.sent = Append(@, request)]

---------------------------------------------------------------------------
(* get_token_fresh *)

\* mizaru::time_to_epoch(SystemTime::now()) as u16
TimeToEpoch(t) == (t \div EPOCH_SECS) % U16

\* blind::hash_message::<Sha256, _>(&subkey, &digest): the full-domain hash
hash_message(subkey, digest) == <<subkey, digest>>

\* blind::blind(rng, &subkey, &digest): the blinded digest; `factor` is the
\* randomness drawn, kept as the unblinder
blind(digest, factor) == [digest |-> digest, factor |-> factor]

\* blind_signature.unblind(&unblinder), for the blind signature `signer`
\* made over the blinded digest of the request
unblind(signer, blinded, unblinder) ==
    [key |-> IF blinded.factor = unblinder THEN signer ELSE "forged",
     msg |-> blinded.digest]

\* mizaru_pk.blind_verify(&digest, &unblinded_signature)
blind_verify(pk, digest, sig) == sig.key = pk /\ sig.msg = digest

\* get_token_fresh has resolved to r
Resolved(cr, r) == [cr EXCEPT !.pc = "resolved", !.res = r]

\* (mutant) past the last level the loop starts over with the first
NextLevel_StartsOver(cr, i) ==
    LET j == IF i > Len(LEVELS) THEN 1 ELSE i
    IN [cr EXCEPT !.pc = "GetEpochKey", !.level = j,
                  !.epoch = TimeToEpoch(clock),
                  !.digest = <<>>, !.unblinder = 0,
                  !.sent = Append(@, [t |-> "GetEpochKey",
                                      level |-> LEVELS[j],
                                      epoch |-> TimeToEpoch(clock)])]

\* the top of the loop body for LEVELS[i]: the epoch is computed and
\* GetEpochKey is sent; past the last level the function bails
NextLevel(cr, i) ==
    IF i > Len(LEVELS)
    THEN Resolved(cr, Err("neither plus nor free worked"))
    ELSE [cr EXCEPT !.pc = "GetEpochKey", !.level = i,
                    !.epoch = TimeToEpoch(clock),
                    !.digest = <<>>, !.unblinder = 0,
                    !.sent = Append(@, [t |-> "GetEpochKey",
                                        level |-> LEVELS[i],
                                        epoch |-> TimeToEpoch(clock)])]

\* the response to GetEpochKey: `timeout(..).await??`, then on a subkey the
\* hash, the blinding (with the random value `draw`) and Authenticate
OnEpochKey(cr, resp, draw) ==
    IF resp.t = "timeout" THEN Resolved(cr, Err("timeout"))
    ELSE IF resp.t = "err" THEN Resolved(cr, Err(resp.v))
    ELSE IF resp.t = "GetEpochKeyResp"
    THEN LET digest == hash_message(resp.v, cr.rnd)
             blinded_digest == blind(digest, draw)
         IN [cr EXCEPT !.pc = "Authenticate", !.digest = digest,
                       !.unblinder = draw,
                       !.sent = Append(@, [t |-> "Authenticate",
                                           username |-> cr.user,
                                           level |-> LEVELS[cr.level],
                                           epoch |-> cr.epoch,
                                           blinded_digest |-> blinded_digest])]
    ELSE NextLevel(cr, cr.level + 1)

\* (mutant) an invalid signature moves on to the next level
BadSignature_Continue(cr) == NextLevel(cr, cr.level + 1)

\* the unblinded signature did not verify: anyhow::bail!
BadSignature(cr) ==
    Resolved(cr, Err("an invalid signature was given by the binder"))

\* the Token returned for the level of this iteration
MakeToken(cr, unblinded_signature) ==
    [user_info |-> "user_info", level |-> LEVELS[cr.level], epoch |-> cr.epoch,
     unblinded_digest |-> cr.digest,
     unblinded_signature |-> unblinded_signature]

\* the response to Authenticate: `timeout(..).await?`, then the match
OnAuthenticate(cr, resp) ==
    IF resp.t = "timeout" THEN Resolved(cr, Err("timeout"))
    ELSE IF resp.t = "AuthenticateResp"
    THEN LET blinded_digest == cr.sent[Len(cr.sent)].blinded_digest
             unblinded_signature == unblind(resp.v, blinded_digest, cr.unblinder)
         IN IF ~blind_verify(MizaruPk(LEVELS[cr.level]), cr.digest,
                             unblinded_signature)
            THEN BadSignature(cr)
            ELSE Resolved(cr, Ok(MakeToken(cr, unblinded_signature), "fresh"))
    ELSE IF resp.t = "err" /\ resp.v = "WrongLevel"
    THEN NextLevel(cr, cr.level + 1)
    ELSE IF resp.t = "err" THEN Resolved(cr, Err(resp.v))
    ELSE NextLevel(cr, cr.level + 1)

---------------------------------------------------------------------------
(* get_auth_token and get_bridges *)

\* get_bridges holds the token: the locals of get_auth_token are gone
WithToken(cr, tok) ==
    [cr EXCEPT !.tok = tok, !.res = NoRes, !.pc = "idle", !.deadline = 0,
               !.level = 0, !.rnd = 0, !.epoch = 0, !.digest = <<>>,
               !.unblinder = 0]

\* get_bridges after get_auth_token: the first poll of
\* get_cached_maybe_stale on the bridge key of the hostname
BridgesBegin(cr, db) ==
    MaybeStaleBegin(cr, db, BridgesKey(cr.host), TTL_BRIDGES,
                    [t |-> "GetBridges", level |-> cr.tok.level,
                     unblinded_digest |-> cr.tok.unblinded_digest,
                     unblinded_signature |-> cr.tok.unblinded_signature,
                     exit_hostname |-> cr.host],
                    "GetBridges")

\* (mutant) get_bridges goes on to its bridge lookup without a token
AuthReturned_IgnoresFailure(cr, db, ret, prior) ==
    IF cr.op = "get_bridges"
    THEN BridgesBegin(WithToken(cr, IF ret.ok THEN ret.v ELSE NoToken), db)
    ELSE Return(cr, ret, prior)

\* get_auth_token returned ret to its caller (`prior`: what the store
\* held under the token key before)
AuthReturned(cr, db, ret, prior) ==
    IF cr.op = "get_bridges" /\ ret.ok
    THEN BridgesBegin(WithToken(cr, ret.v), db)
    ELSE Return(cr, ret, prior)

\* the first poll of get_auth_token: get_cached on the token key returns
\* the stored token, or captures the deadline and starts get_token_fresh
\* (whose random digest is the value `draw`)
AuthBegin(cr, db, draw) ==
    LET k == to_key(KEY_AUTH_TOKEN, cr.user) IN
    IF CacheHit(db, k, force_sync[cr.user], TTL_AUTH)
    THEN AuthReturned(cr, db, Ok(db[k].val, "hit"), Prior(db, k))
    ELSE NextLevel([cr EXCEPT !.deadline = clock, !.rnd = draw], 1)

\* a step of get_token_fresh led to cr: if it has resolved, get_cached
\* stores a token and get_auth_token returns.  The store afterwards:
TokenStepDb(cr, db) ==
    IF cr.pc = "resolved"
    THEN AfterFallback(db, to_key(KEY_AUTH_TOKEN, cr.user), cr.res,
                       cr.deadline, <<KEY_AUTH_TOKEN, cr.user>>)
    ELSE db

\* and the call afterwards
TokenStepCall(cr, db) ==
    IF cr.pc = "resolved"
    THEN AuthReturned(cr, TokenStepDb(cr, db), GetCachedReturn(cr.res),
                      Prior(db, to_key(KEY_AUTH_TOKEN, cr.user)))
    ELSE cr

---------------------------------------------------------------------------
(* Actions *)

\* the call slots of the specification in force
Slots == DOMAIN calls

NewCall(op, u, h) == [IdleCall EXCEPT !.op = op, !.user = u, !.host = h]

Awaiting(cr) == cr.pc \in {"GetExits", "GetFreeExits", "GetBridges"}

\* pub async fn get_exits, first poll
get_exits(c, u) ==
    /\ calls[c].pc = "idle"
    /\ calls' = [calls EXCEPT ![c] =
           MaybeStaleBegin(NewCall("get_exits", u, <<>>), database, KEY_EXITS,
                           TTL_EXITS, [t |-> "GetExits"], "GetExits")]
    /\ UNCHANGED <<database, clock, ticks, force_sync, rng, purged>>

\* pub async fn get_free_exits, first poll
get_free_exits(c, u) ==
    /\ calls[c].pc = "idle"
    /\ calls' = [calls EXCEPT ![c] =
           MaybeStaleBegin(NewCall("get_free_exits", u, <<>>), database,
                           KEY_FREE_EXITS, TTL_FREE_EXITS,
                           [t |-> "GetFreeExits"], "GetFreeExits")]
    /\ UNCHANGED <<database, clock, ticks, force_sync, rng, purged>>

\* the composite key a get_bridges call has just looked up: after a step
\* that took it out of get_auth_token, get_cached on its bridge key has
\* either sent GetBridges or returned the stored list
LookedUp(nx) ==
    IF nx.op = "get_bridges" /\ (nx.pc = "GetBridges" \/ (nx.pc = "done" /\ nx.res.ok))
    THEN {to_key(BridgesKey(nx.host), nx.user)}
    ELSE {}

\* the first poll of a call that starts with get_auth_token
TokenCall(c, cr0) ==
    LET cr1 == AuthBegin(cr0, database, rng + 1) IN
    /\ calls[c].pc = "idle"
    /\ cr1.pc = "GetEpochKey" => rng + 3 <= MaxDraws
    /\ calls' = [calls EXCEPT ![c] = cr1]
    /\ rng' = IF cr1.pc = "GetEpochKey" THEN rng + 1 ELSE rng
    /\ purged' = purged \ LookedUp(cr1)
    /\ UNCHANGED <<database, clock, ticks, force_sync>>

\* pub async fn get_auth_token, first poll
get_auth_token(c, u) == TokenCall(c, NewCall("get_auth_token", u, <<>>))

\* pub async fn get_bridges, first poll
get_bridges(c, u, exit_hostname) ==
    TokenCall(c, NewCall("get_bridges", u, exit_hostname))

\* pub fn purge_bridges
purge_bridges(u, exit_hostname) ==
    /\ database' = Remove(database, to_key(BridgesKey(exit_hostname), u))
    /\ purged' = purged \cup {to_key(BridgesKey(exit_hostname), u)}
    /\ UNCHANGED <<clock, ticks, force_sync, calls, rng>>

\* get_token_fresh is polled with the response to GetEpochKey (or its timeout)
EpochKeyReplies(c, resp) ==
    LET cr1 == OnEpochKey(calls[c], resp, rng + 1) IN
    /\ calls[c].pc = "GetEpochKey"
    /\ calls' = [calls EXCEPT ![c] = TokenStepCall(cr1, database)]
    /\ database' = TokenStepDb(cr1, database)
    /\ rng' = IF cr1.pc = "Authenticate" THEN rng + 1 ELSE rng
    /\ purged' = purged \ LookedUp(calls'[c])
    /\ UNCHANGED <<clock, ticks, force_sync>>

\* get_token_fresh is polled with the response to Authenticate (or its timeout)
AuthenticateReplies(c, resp) ==
    LET cr1 == OnAuthenticate(calls[c], resp) IN
    /\ calls[c].pc = "Authenticate"
    /\ calls' = [calls EXCEPT ![c] = TokenStepCall(cr1, database)]
    /\ database' = TokenStepDb(cr1, database)
    /\ purged' = purged \ LookedUp(calls'[c])
    /\ UNCHANGED <<clock, ticks, force_sync, rng>>

\* get_cached_maybe_stale is polled with the response to the fallback's
\* request (or its timeout): get_cached goes first, the stale branch is
\* ready too if its Timer has elapsed
FallbackReplies(c, resp) ==
    LET cr == calls[c]
        k == CallKey(cr)
        r == Fallback(cr, resp)
        first == {GetCachedReturn(r)}
        second == IF cr.timer = "elapsed"
                  THEN StaleBranch(database, force_sync[cr.user], k)
                  ELSE {}
        ret == CHOOSE x \in or(first, second) : TRUE
    IN /\ Awaiting(cr)
       /\ calls' = [calls EXCEPT ![c] = Return(cr, ret, Prior(database, k))]
       /\ database' = IF ret \in first
                      THEN AfterFallback(database, k, r, cr.deadline,
                                         <<LogicalKey(cr), cr.user>>)
                      ELSE database
       /\ UNCHANGED <<clock, ticks, force_sync, rng, purged>>

\* smol::Timer::after(STALE_TIMEOUT) of the call reaches its instant
TimerElapses(c) ==
    /\ Awaiting(calls[c])
    /\ calls[c].timer = "armed"
    /\ calls' = [calls EXCEPT ![c].timer = "elapsed"]
    /\ UNCHANGED <<database, clock, ticks, force_sync, rng, purged>>

\* get_cached_maybe_stale is polled because its Timer elapsed, the fallback
\* still pending: the stale value is returned, or the branch waits for ever
StaleWakes(c) ==
    LET cr == calls[c]
        k == CallKey(cr)
        second == StaleBranch(database, force_sync[cr.user], k)
        out == or({}, second)
    IN /\ Awaiting(cr)
       /\ cr.timer = "elapsed"
       /\ calls' = [calls EXCEPT ![c] =
              IF out = {} THEN [cr EXCEPT !.timer = "pending"]
              ELSE Return(cr, CHOOSE x \in out : TRUE, Prior(database, k))]
       /\ UNCHANGED <<database, clock, ticks, force_sync, rng, purged>>

\* the caller has taken the result: the slot is free for another call
Finish(c) ==
    /\ calls[c].pc = "done"
    /\ calls' = [calls EXCEPT ![c] = IdleCall]
    /\ UNCHANGED <<database, clock, ticks, force_sync, rng, purged>>

\* the owner of the ClientCache sets its pub force_sync field, which needs
\* exclusive access: no call on it is in flight
SetForceSync(u) ==
    /\ \A c \in Slots : calls[c].user = u => calls[c].pc = "done"
    /\ force_sync' = [force_sync EXCEPT ![u] = ~@]
    /\ UNCHANGED <<database, clock, ticks, calls, rng, purged>>

\* time passes
Tick(d) ==
    /\ ticks < MaxTicks
    /\ clock' = clock + d
    /\ ticks' = ticks + 1
    /\ UNCHANGED <<database, force_sync, calls, rng, purged>>

---------------------------------------------------------------------------
(* Specifications *)

User == <<"u">>
Host == <<"x">>

\* ClientCache::new for the accounts of `users` over one empty store;
\* `slots` names the API calls that can be in flight at once
Start(users, slots) ==
    /\ database = EmptyDb
    /\ clock = 0
    /\ ticks = 0
    /\ force_sync = [u \in users |-> FALSE]
    /\ calls = [c \in slots |-> IdleCall]
    /\ rng = 0
    /\ purged = {}

(* The cache engine under concurrency: two callers of one account run     *)
(* get_exits at once, so that refreshes of one key overlap.                *)
Init == Start({User}, {"a", "b"})

Next ==
    \/ \E c \in Slots : get_exits(c, User)
    \/ \E c \in Slots : \E resp \in ExitsResponses : FallbackReplies(c, resp)
    \/ \E c \in Slots : TimerElapses(c)
    \/ \E c \in Slots : StaleWakes(c)
    \/ \E c \in Slots : Finish(c)
    \/ SetForceSync(User)
    \/ \E d \in {1, TTL_EXITS - 1} : Tick(d)

Spec == Init /\ [][Next]_vars

(* The strict path and the bounded-latency path side by side: one caller  *)
(* of one account runs get_auth_token (with the token protocol) and        *)
(* get_exits.                                                              *)
InitToken == Start({User}, {"a"})

NextToken ==
    \/ \E c \in Slots : get_auth_token(c, User)
    \/ \E c \in Slots : \E resp \in EpochKeyResponses : EpochKeyReplies(c, resp)
    \/ \E c \in Slots : \E resp \in AuthResponses : AuthenticateReplies(c, resp)
    \/ \E c \in Slots : get_exits(c, User)
    \/ \E c \in Slots : \E resp \in ExitsResponses : FallbackReplies(c, resp)
    \/ \E c \in Slots : TimerElapses(c)
    \/ \E c \in Slots : StaleWakes(c)
    \/ \E c \in Slots : Finish(c)
    \/ SetForceSync(User)
    \/ \E d \in {1, TTL_AUTH - 1} : Tick(d)

SpecToken == InitToken /\ [][NextToken]_vars

(* Two accounts over one store: their ClientCaches share the database, and *)
(* usernames and exit hostnames may contain "-".                           *)
Usernames == {<<"b">>, <<"a", "-", "b">>}
Hostnames == {<<"x">>, <<"x", "-", "a">>}

InitKeys == Start(Usernames, {"a"})

NextKeys ==
    \/ \E c \in Slots : \E u \in Usernames : \E h \in Hostnames :
           get_bridges(c, u, h)
    \/ \E u \in Usernames : \E h \in Hostnames : purge_bridges(u, h)
    \/ \E c \in Slots : \E resp \in EpochKeyResponses : EpochKeyReplies(c, resp)
    \/ \E c \in Slots : \E resp \in AuthResponses : AuthenticateReplies(c, resp)
    \/ \E c \in Slots : \E resp \in BridgesResponses : FallbackReplies(c, resp)
    \/ \E c \in Slots : TimerElapses(c)
    \/ \E c \in Slots : StaleWakes(c)
    \/ \E c \in Slots : Finish(c)

SpecKeys == InitKeys /\ [][NextKeys]_vars

(* One caller of one account over exit hostnames with and without "-":   *)
(* get_bridges, purge_bridges and get_exits, so that the store holds a      *)
(* token, an exit list and the bridge lists of two hostnames.               *)
InitBridges == Start({User}, {"a"})

NextBridges ==
    \/ \E c \in Slots : \E h \in Hostnames : get_bridges(c, User, h)
    \/ \E h \in Hostnames : purge_bridges(User, h)
    \/ \E c \in Slots : get_exits(c, User)
    \/ \E c \in Slots :
           \E resp \in {Resp("GetEpochKeyResp", "sk"), Resp("timeout", "")} :
               EpochKeyReplies(c, resp)
    \/ \E c \in Slots :
           \E resp \in {Resp("AuthenticateResp", "plus_pk"), Resp("err", "Other")} :
               AuthenticateReplies(c, resp)
    \/ \E c \in Slots :
           \E resp \in {Resp("GetBridgesResp", "B1"), Resp("GetExitsResp", "E1"),
                        Resp("timeout", "")} :
               FallbackReplies(c, resp)
    \/ \E c \in Slots : TimerElapses(c)
    \/ \E c \in Slots : StaleWakes(c)
    \/ \E c \in Slots : Finish(c)
    \/ \E d \in {1, TTL_AUTH - 1} : Tick(d)

SpecBridges == InitBridges /\ [][NextBridges]_vars

(* Two callers of one account run get_bridges for one hostname while its  *)
(* bridge list is purged: refreshes in flight overlap with purge_bridges.   *)
InitPurge == Start({User}, {"a", "b"})

NextPurge ==
    \/ \E c \in Slots : get_bridges(c, User, Host)
    \/ purge_bridges(User, Host)
    \/ \E c \in Slots : EpochKeyReplies(c, Resp("GetEpochKeyResp", "sk"))
    \/ \E c \in Slots : AuthenticateReplies(c, Resp("AuthenticateResp", "plus_pk"))
    \/ \E c \in Slots :
           \E resp \in {Resp("GetBridgesResp", b) : b \in BridgeLists}
                        \cup {Resp("timeout", "")} :
               FallbackReplies(c, resp)
    \/ \E c \in Slots : TimerElapses(c)
    \/ \E c \in Slots : StaleWakes(c)
    \/ \E c \in Slots : Finish(c)
    \/ Tick(TTL_BRIDGES)

SpecPurge == InitPurge /\ [][NextPurge]_vars

---------------------------------------------------------------------------
(* Properties *)

\* the logical key and the ttl of the get_cached an API call starts with
FirstKey(op) ==
    IF op = "get_exits" THEN KEY_EXITS
    ELSE IF op = "get_free_exits" THEN KEY_FREE_EXITS
    ELSE KEY_AUTH_TOKEN

FirstTtl(op) ==
    IF op = "get_exits" THEN TTL_EXITS
    ELSE IF op = "get_free_exits" THEN TTL_FREE_EXITS
    ELSE TTL_AUTH

\* the call of slot c starts in this step
Begins(c) == calls[c].pc = "idle" /\ calls'[c].pc # "idle"

\* the fallback of the get_cached that slot c is in resolves to an error
\* in this step
FallbackFails(c) ==
    \/ /\ Awaiting(calls[c])
       /\ \E resp \in ExitsResponses \cup BridgesResponses :
              /\ ~Fallback(calls[c], resp).ok
              /\ FallbackReplies(c, resp)
    \/ /\ calls[c].pc = "GetEpochKey"
       /\ \E resp \in EpochKeyResponses :
              /\ OnEpochKey(calls[c], resp, rng + 1).pc = "resolved"
              /\ ~OnEpochKey(calls[c], resp, rng + 1).res.ok
              /\ EpochKeyReplies(c, resp)
    \/ /\ calls[c].pc = "Authenticate"
       /\ \E resp \in AuthResponses :
              /\ OnAuthenticate(calls[c], resp).pc = "resolved"
              /\ ~OnAuthenticate(calls[c], resp).res.ok
              /\ AuthenticateReplies(c, resp)

\* C1: a call that finds, with force_sync off, a record (V, ts) under its
\* key at a time now < ts + ttl returns V at once, sends no binder request
\* and leaves the store as it is.
C1_CacheHit ==
    [][\A c \in Slots :
          LET cr == calls'[c]
              k == to_key(FirstKey(cr.op), cr.user)
          IN ( /\ Begins(c)
               /\ cr.op \in {"get_exits", "get_free_exits", "get_auth_token"}
               /\ ~force_sync[cr.user]
               /\ k \in DOMAIN database
               /\ clock < database[k].ts + FirstTtl(cr.op) )
             => ( /\ cr.pc = "done"
                  /\ cr.res.ok
                  /\ cr.res.v = database[k].val
                  /\ cr.sent = <<>>
                  /\ database' = database )]_vars

\* a second get_exits, later than the record's timestamp and within its
\* 3600 s, has returned the stored list without any request
C1_Witness ==
    \E c \in Slots :
        /\ calls[c].op = "get_exits"
        /\ calls[c].pc = "done"
        /\ calls[c].res.how = "hit"
        /\ calls[c].sent = <<>>
        /\ \E rec \in calls[c].res.prior :
              /\ rec.ts < clock
              /\ clock < rec.ts + TTL_EXITS
              /\ rec.val = calls[c].res.v

\* C3: when the fallback of get_cached resolves to an error, the call
\* returns an error in that step and the store is left as it was: every key
\* keeps its record, so the record of the call's key is still there for a
\* stale read.
C3_FailedRefreshKeepsStore ==
    [][\A c \in Slots :
          (calls'[c] # calls[c] /\ FallbackFails(c))
          => ( /\ calls'[c].pc = "done"
               /\ ~calls'[c].res.ok
               /\ database' = database
               /\ Prior(database', CallKey(calls[c]))
                    = Prior(database, CallKey(calls[c])) )]_vars

\* get_auth_token has failed over an expired token, which is still stored
C3_Witness ==
    \E c \in Slots :
        /\ calls[c].op = "get_auth_token"
        /\ calls[c].pc = "done"
        /\ calls[c].res.how = "error"
        /\ ~force_sync[calls[c].user]
        /\ \E rec \in calls[c].res.prior :
              /\ clock >= rec.ts + TTL_AUTH
              /\ to_key(KEY_AUTH_TOKEN, calls[c].user) \in DOMAIN database
              /\ database[to_key(KEY_AUTH_TOKEN, calls[c].user)] = rec

\* C2: a get_cached that finds no record, or one with now >= ts + ttl,
\* sends the fallback's request once and captures the clock as its
\* deadline; the deadline and the request stay as they are while the
\* fallback is awaited; when the fallback succeeds with V the record of the
\* key becomes (V, deadline) whatever was stored there, no other key
\* changes, the deadline is not later than the time of the write, and the
\* call returns V.
C2_Refresh ==
    [][\A c \in Slots :
          LET cr == calls[c]
              nx == calls'[c]
              k == to_key(KEY_EXITS, nx.user)
          IN /\ ( /\ Begins(c)
                  /\ nx.op = "get_exits"
                  /\ \/ k \notin DOMAIN database
                     \/ clock >= database[k].ts + TTL_EXITS )
                => ( /\ nx.pc = "GetExits"
                     /\ nx.deadline = clock
                     /\ nx.sent = <<[t |-> "GetExits"]>>
                     /\ database' = database )
             /\ (Awaiting(cr) /\ Awaiting(nx))
                => (nx.deadline = cr.deadline /\ nx.sent = cr.sent)
             /\ \A list \in ExitLists :
                   ( /\ cr.pc = "GetExits"
                     /\ nx # cr
                     /\ FallbackReplies(c, Resp("GetExitsResp", list)) )
                   => ( /\ DOMAIN database' = DOMAIN database \cup {k}
                        /\ database'[k].val = Vec(list)
                        /\ database'[k].ts = cr.deadline
                        /\ cr.deadline <= clock'
                        /\ \A x \in DOMAIN database \ {k} :
                              database'[x] = database[x]
                        /\ nx.pc = "done"
                        /\ nx.res.ok
                        /\ nx.res.v = Vec(list)
                        /\ nx.sent = <<[t |-> "GetExits"]>> )]_vars

\* a refresh that began at an earlier time has replaced a record holding
\* another list, and its record carries the time the refresh began
C2_Witness ==
    \E c \in Slots :
        LET k == to_key(KEY_EXITS, calls[c].user) IN
        /\ calls[c].pc = "done"
        /\ calls[c].res.how = "fresh"
        /\ k \in DOMAIN database
        /\ database[k].val = calls[c].res.v
        /\ database[k].ts < clock
        /\ \E rec \in calls[c].res.prior : rec.val # calls[c].res.v

\* C5: when the response to the fallback's request arrives before the
\* stale branch of get_cached_maybe_stale has returned (its Timer running,
\* or elapsed but not yet acted on), the call returns get_cached's result:
\* on success the fetched list, which is then the stored one, and never
\* the older stored value.
C5_FreshWins ==
    [][\A c \in Slots : \A resp \in ExitsResponses :
          ( /\ calls[c].pc = "GetExits"
            /\ calls[c].timer \in {"armed", "elapsed"}
            /\ calls'[c] # calls[c]
            /\ FallbackReplies(c, resp) )
          => ( /\ calls'[c].pc = "done"
               /\ calls'[c].res.how # "stale"
               /\ resp.t = "GetExitsResp"
                  => ( /\ calls'[c].res.ok
                       /\ calls'[c].res.v = Vec(resp.v)
                       /\ database'[CallKey(calls[c])].val = Vec(resp.v) ) )]_vars

\* a call has returned the fetched list although another list was stored
\* and available to the stale branch
C5_Witness ==
    \E c \in Slots :
        /\ calls[c].pc = "done"
        /\ calls[c].res.how = "fresh"
        /\ ~force_sync[calls[c].user]
        /\ \E rec \in calls[c].res.prior : rec.val # calls[c].res.v

\* C6: when the stale branch acts on its elapsed Timer (the fallback still
\* pending) and, force_sync off, a record is stored under the key, the call
\* returns that record's value whatever its age and the store is unchanged;
\* when no record is stored the call stays pending on the same request, and
\* from then on it returns only through get_cached, with exactly the result
\* of get_cached.
C6_StaleAfterGrace ==
    [][\A c \in Slots :
          LET cr == calls[c]
              nx == calls'[c]
              k == CallKey(cr)
          IN /\ (cr.pc = "GetExits" /\ nx # cr /\ StaleWakes(c))
                => IF k \in DOMAIN database /\ ~force_sync[cr.user]
                   THEN /\ nx.pc = "done"
                        /\ nx.res.ok
                        /\ nx.res.v = database[k].val
                        /\ database' = database
                   ELSE k \notin DOMAIN database
                        => nx = [cr EXCEPT !.timer = "pending"]
             /\ (cr.pc = "GetExits" /\ cr.timer = "pending" /\ nx # cr)
                => \E resp \in ExitsResponses :
                      /\ FallbackReplies(c, resp)
                      /\ nx.pc = "done"
                      /\ nx.res.ok = get_exits_fresh(resp).ok
                      /\ nx.res.v = get_exits_fresh(resp).v
                      /\ nx.res.how \in {"fresh", "error"}]_vars

\* a call has returned a stored list that was past its ttl
C6_Witness ==
    \E c \in Slots :
        /\ calls[c].pc = "done"
        /\ calls[c].res.how = "stale"
        /\ \E rec \in calls[c].res.prior :
              /\ rec.val = calls[c].res.v
              /\ clock >= rec.ts + TTL_EXITS

\* C7: a call returns a stored value in place of its fallback's outcome
\* only in the step in which the stale branch acts on its elapsed Timer,
\* the fallback still pending, and a record is stored; whenever the
\* fallback resolves to an error, in get_cached_maybe_stale or in the
\* get_cached of get_auth_token, the call returns that very error.
C7_ErrorPropagation ==
    [][\A c \in Slots :
          LET cr == calls[c]
              nx == calls'[c]
          IN /\ (nx # cr /\ nx.pc = "done" /\ nx.res.how = "stale")
                => ( /\ cr.timer = "elapsed"
                     /\ StaleWakes(c)
                     /\ CallKey(cr) \in DOMAIN database )
             /\ \A resp \in ExitsResponses :
                   ( /\ cr.pc = "GetExits"
                     /\ nx # cr
                     /\ ~get_exits_fresh(resp).ok
                     /\ FallbackReplies(c, resp) )
                   => (nx.pc = "done" /\ nx.res.ok = FALSE
                       /\ nx.res.v = get_exits_fresh(resp).v)
             /\ \A resp \in EpochKeyResponses :
                   ( /\ cr.pc = "GetEpochKey"
                     /\ nx # cr
                     /\ resp.t \in {"timeout", "err"}
                     /\ EpochKeyReplies(c, resp) )
                   => (nx.pc = "done" /\ nx.res.ok = FALSE
                       /\ nx.res.v.error
                            = IF resp.t = "timeout" THEN "timeout" ELSE resp.v)
             /\ \A resp \in AuthResponses :
                   ( /\ cr.pc = "Authenticate"
                     /\ nx # cr
                     /\ resp \in {Resp("timeout", ""), Resp("err", "Other")}
                     /\ AuthenticateReplies(c, resp) )
                   => (nx.pc = "done" /\ nx.res.ok = FALSE
                       /\ nx.res.v.error
                            = IF resp.t = "timeout" THEN "timeout" ELSE resp.v)]_vars

\* a fallback failed while a stored list was available, and the call
\* returned the error
C7_Witness ==
    \E c \in Slots :
        /\ calls[c].op = "get_exits"
        /\ calls[c].pc = "done"
        /\ calls[c].res.how = "error"
        /\ ~force_sync[calls[c].user]
        /\ calls[c].res.prior # {}

\* C4: every value a call reads from the store (a hit or a stale read)
\* comes from a record written for the call's own logical key and
\* username: accounts sharing a store never read each other's entries.
C4_AccountIsolation ==
    \A c \in Slots :
        ( /\ calls[c].pc = "done"
          /\ calls[c].op = "get_bridges"
          /\ calls[c].res.how \in {"hit", "stale"} )
        => \A rec \in calls[c].res.prior :
               rec.by = <<BridgesKey(calls[c].host), calls[c].user>>

\* the requests of a token acquisition in `sent`, by level
LevelRequests(sent, level) ==
    {i \in 1 .. Len(sent) :
        /\ sent[i].t \in {"GetEpochKey", "Authenticate"}
        /\ sent[i].level = level}

KindRequests(sent, level, t) ==
    {i \in LevelRequests(sent, level) : sent[i].t = t}

\* C8: get_token_fresh asks for "plus" first; the first request for "free"
\* is sent only in the step that handles a WrongLevel answer to the
\* Authenticate for "plus"; and "free" is attempted at most once (one
\* GetEpochKey, at most one Authenticate).
C8_LevelOrdering ==
    [][\A c \in Slots :
          LET cr == calls[c]
              nx == calls'[c]
          IN /\ (nx.sent # <<>> /\ nx.op = "get_auth_token")
                => (nx.sent[1].t = "GetEpochKey" /\ nx.sent[1].level = "plus")
             /\ \A i \in LevelRequests(nx.sent, "free") :
                   \A j \in LevelRequests(nx.sent, "plus") : j < i
             /\ Cardinality(KindRequests(nx.sent, "free", "GetEpochKey")) <= 1
             /\ Cardinality(KindRequests(nx.sent, "free", "Authenticate")) <= 1
             /\ ( /\ LevelRequests(cr.sent, "free") = {}
                  /\ LevelRequests(nx.sent, "free") # {} )
                => ( /\ cr.pc = "Authenticate"
                     /\ cr.level = 1
                     /\ AuthenticateReplies(c, Resp("err", "WrongLevel")) )]_vars

\* the random digest an Authenticate request was derived from
RandomDigest(request) == request.blinded_digest.digest[2]

\* C9: within one run of get_token_fresh no two Authenticate requests are
\* derived from the same random digest: the attempt for "free" uses a
\* digest drawn anew, not the one of the attempt for "plus".
C9_FreshDigestPerAttempt ==
    \A c \in Slots :
        \A i, j \in 1 .. Len(calls[c].sent) :
            ( /\ i < j
              /\ calls[c].sent[i].t = "Authenticate"
              /\ calls[c].sent[j].t = "Authenticate" )
            => RandomDigest(calls[c].sent[i]) # RandomDigest(calls[c].sent[j])

\* C10: when the Authenticate of a level is answered with a blind
\* signature that does not verify against that level's long-term key,
\* get_token_fresh fails in that step: the call returns the error, no
\* request is added for any level and the store is not written.
C10_BadSignatureFatal ==
    [][\A c \in Slots : \A signer \in Signers :
          ( /\ calls[c].pc = "Authenticate"
            /\ calls'[c] # calls[c]
            /\ signer # MizaruPk(LEVELS[calls[c].level])
            /\ AuthenticateReplies(c, Resp("AuthenticateResp", signer)) )
          => ( /\ calls'[c].pc = "done"
               /\ ~calls'[c].res.ok
               /\ calls'[c].res.v.error
                    = "an invalid signature was given by the binder"
               /\ calls'[c].sent = calls[c].sent
               /\ database' = database )]_vars

\* get_auth_token has failed on an invalid signature for "plus", having
\* sent nothing for "free", and no token is stored
C10_Witness ==
    \E c \in Slots :
        /\ calls[c].op = "get_auth_token"
        /\ calls[c].pc = "done"
        /\ ~calls[c].res.ok
        /\ calls[c].res.v.error = "an invalid signature was given by the binder"
        /\ Len(calls[c].sent) = 2
        /\ LevelRequests(calls[c].sent, "free") = {}
        /\ to_key(KEY_AUTH_TOKEN, calls[c].user) \notin DOMAIN database

\* C11: in get_token_fresh only WrongLevel moves on to the next level: when
\* the GetEpochKey or the Authenticate of a level comes back with a
\* timeout, a binder error other than WrongLevel or a response of an
\* unexpected kind, the call fails in that step and sends nothing more.
C11_OnlyWrongLevelAdvances ==
    [][\A c \in Slots :
          /\ \A resp \in EpochKeyResponses \ {Resp("err", "WrongLevel")} :
                ( /\ calls[c].pc = "GetEpochKey"
                  /\ resp.t # "GetEpochKeyResp"
                  /\ EpochKeyReplies(c, resp) )
                => ( /\ calls'[c].pc = "done"
                     /\ ~calls'[c].res.ok
                     /\ calls'[c].sent = calls[c].sent )
          /\ \A resp \in AuthResponses \ {Resp("err", "WrongLevel")} :
                ( /\ calls[c].pc = "Authenticate"
                  /\ resp.t # "AuthenticateResp"
                  /\ AuthenticateReplies(c, resp) )
                => ( /\ calls'[c].pc = "done"
                     /\ ~calls'[c].res.ok
                     /\ calls'[c].sent = calls[c].sent )]_vars

\* C12: when the Authenticate for "free", the last level, is answered with
\* WrongLevel (the one for "plus" having let the loop go on), the call
\* fails in that step with "neither plus nor free worked": it has made two
\* level attempts (two GetEpochKey, two Authenticate), returns no token
\* and leaves the store, the token entry included, as it was.
C12_LevelsExhausted ==
    [][\A c \in Slots :
          ( /\ calls[c].pc = "Authenticate"
            /\ calls[c].level = Len(LEVELS)
            /\ KindRequests(calls[c].sent, "plus", "Authenticate") # {}
            /\ AuthenticateReplies(c, Resp("err", "WrongLevel")) )
          => ( /\ calls'[c].pc = "done"
               /\ ~calls'[c].res.ok
               /\ calls'[c].res.v = [error |-> "neither plus nor free worked"]
               /\ calls'[c].sent = calls[c].sent
               /\ Len(calls'[c].sent) = 4
               /\ \A level \in {"plus", "free"} :
                     \A t \in {"GetEpochKey", "Authenticate"} :
                         Cardinality(KindRequests(calls'[c].sent, level, t)) = 1
               /\ database' = database )]_vars

\* get_auth_token has failed with the levels exhausted after an
\* Authenticate for each level, over a store that held a token (expired)
\* and still holds it
C12_Witness ==
    \E c \in Slots :
        /\ calls[c].op = "get_auth_token"
        /\ calls[c].pc = "done"
        /\ calls[c].res.v = [error |-> "neither plus nor free worked"]
        /\ KindRequests(calls[c].sent, "plus", "Authenticate") # {}
        /\ KindRequests(calls[c].sent, "free", "Authenticate") # {}
        /\ calls[c].res.prior # {}
        /\ calls[c].res.prior = Prior(database, to_key(KEY_AUTH_TOKEN, calls[c].user))

\* C13: purge_bridges(h) of the user removes the entry under the bridge key
\* of h and nothing else: every other entry of the store (the token, the
\* exit lists, the bridge lists of the other hostnames) stays mapped to the
\* record it had, and without an entry for h the store is unchanged.
C13_PurgeFrame ==
    [][\A h \in Hostnames :
          purge_bridges(User, h)
          => LET k == to_key(BridgesKey(h), User)
             IN /\ k \notin DOMAIN database'
                /\ DOMAIN database' = DOMAIN database \ {k}
                /\ \A x \in DOMAIN database' : database'[x] = database[x]
                /\ \A x \in {to_key(KEY_AUTH_TOKEN, User), to_key(KEY_EXITS, User),
                             to_key(KEY_FREE_EXITS, User)}
                        \cup {to_key(BridgesKey(g), User) : g \in Hostnames \ {h}} :
                       x \in DOMAIN database
                       => (x \in DOMAIN database' /\ database'[x] = database[x])
                /\ k \notin DOMAIN database => database' = database]_vars

\* the bridge list a get_bridges(h) call has just stored is gone after
\* purge_bridges(h), while the store still holds the token, the exit list
\* and the bridge list of another hostname
C13_Witness ==
    \E h \in Hostnames : \E g \in Hostnames \ {h} :
        /\ \E c \in Slots : /\ calls[c].pc = "done"
                             /\ calls[c].op = "get_bridges"
                             /\ calls[c].host = h
                             /\ calls[c].res.how = "fresh"
        /\ to_key(BridgesKey(h), User) \in purged
        /\ to_key(BridgesKey(h), User) \notin DOMAIN database
        /\ to_key(BridgesKey(g), User) \in DOMAIN database
        /\ to_key(BridgesKey(g), User) \notin purged
        /\ to_key(KEY_AUTH_TOKEN, User) \in DOMAIN database
        /\ to_key(KEY_EXITS, User) \in DOMAIN database

\* C14: get_auth_token never serves a stale token.  A token it returns is
\* either the value of the stored record, read at the start of the call
\* with now < ts + 86400, or the token of an Authenticate answered during
\* this call; the call has no grace timer, and over a record of 24 h or
\* more it sends GetEpochKey and waits for the binder.
C14_TokenNeverStale ==
    [][\A c \in Slots :
          LET cr == calls[c]
              nx == calls'[c]
              k == to_key(KEY_AUTH_TOKEN, nx.user)
          IN (nx.op = "get_auth_token" /\ nx # cr)
             => /\ nx.timer = "none"
                /\ nx.res.how # "stale"
                /\ (nx.pc = "done" /\ nx.res.ok)
                   => \/ /\ nx.res.how = "hit"
                         /\ cr.pc = "idle"
                         /\ nx.sent = <<>>
                         /\ k \in DOMAIN database
                         /\ nx.res.v = database[k].val
                         /\ clock < database[k].ts + 86400
                      \/ /\ nx.res.how = "fresh"
                         /\ cr.pc = "Authenticate"
                         /\ \E signer \in Signers :
                               AuthenticateReplies(c, Resp("AuthenticateResp", signer))
                /\ ( /\ cr.pc = "idle"
                     /\ k \in DOMAIN database
                     /\ clock >= database[k].ts + 86400 )
                   => ( /\ nx.pc = "GetEpochKey"
                        /\ Len(nx.sent) = 1 )]_vars

\* with force_sync off, get_auth_token has failed over a stored token that
\* is 24 h old or older, which is still in the store
C14_Witness ==
    \E c \in Slots :
        /\ calls[c].op = "get_auth_token"
        /\ calls[c].pc = "done"
        /\ ~calls[c].res.ok
        /\ ~force_sync[calls[c].user]
        /\ \E rec \in calls[c].res.prior : clock >= rec.ts + 86400
        /\ calls[c].res.prior = Prior(database, to_key(KEY_AUTH_TOKEN, calls[c].user))

\* the call has failed with the error v before its bridge lookup
FailedBeforeLookup(nx, v) ==
    /\ nx.pc = "done"
    /\ ~nx.res.ok
    /\ nx.res.v = v
    /\ nx.timer = "none"
    /\ \A i \in 1 .. Len(nx.sent) : nx.sent[i].t # "GetBridges"

\* C15: get_bridges(h) completes get_auth_token first.  In the step in
\* which the token acquisition fails, the call returns that error, having
\* sent no GetBridges and started no timer (so no stored bridge list is
\* returned); and the GetBridges request it sends carries h and the level,
\* digest and signature of the token get_auth_token returned to this call,
\* which is the token stored under the token key.
C15_BridgesNeedToken ==
    [][\A c \in Slots :
          LET cr == calls[c]
              nx == calls'[c]
              tk == to_key(KEY_AUTH_TOKEN, nx.user)
          IN (nx.op = "get_bridges" /\ nx # cr)
             => /\ \A resp \in EpochKeyResponses :
                      LET r == OnEpochKey(cr, resp, rng + 1)
                      IN ( /\ cr.pc = "GetEpochKey"
                           /\ r.pc = "resolved"
                           /\ EpochKeyReplies(c, resp) )
                         => FailedBeforeLookup(nx, r.res.v)
                /\ \A resp \in AuthResponses :
                      LET r == OnAuthenticate(cr, resp)
                      IN ( /\ cr.pc = "Authenticate"
                           /\ r.pc = "resolved"
                           /\ ~r.res.ok
                           /\ AuthenticateReplies(c, resp) )
                         => FailedBeforeLookup(nx, r.res.v)
                /\ (nx.pc = "GetBridges" /\ cr.pc # "GetBridges")
                   => LET req == nx.sent[Len(nx.sent)]
                      IN /\ req.t = "GetBridges"
                         /\ req.exit_hostname = nx.host
                         /\ \A i \in 1 .. Len(nx.sent) - 1 :
                               nx.sent[i].t # "GetBridges"
                         /\ tk \in DOMAIN database'
                         /\ req.level = database'[tk].val.level
                         /\ req.unblinded_digest
                               = database'[tk].val.unblinded_digest
                         /\ req.unblinded_signature
                               = database'[tk].val.unblinded_signature
                         /\ cr.pc = "Authenticate"
                            => ( /\ req.level = LEVELS[cr.level]
                                 /\ req.unblinded_digest = cr.digest )]_vars

\* get_bridges(h) has failed in get_auth_token, without a GetBridges
\* request, although the store holds a bridge list for h within its ttl
C15_Witness ==
    \E c \in Slots :
        LET k == to_key(BridgesKey(calls[c].host), calls[c].user)
        IN /\ calls[c].op = "get_bridges"
           /\ calls[c].pc = "done"
           /\ ~calls[c].res.ok
           /\ calls[c].sent # <<>>
           /\ \A i \in 1 .. Len(calls[c].sent) : calls[c].sent[i].t # "GetBridges"
           /\ k \in DOMAIN database
           /\ clock < database[k].ts + TTL_BRIDGES

\* C16: the first get_bridges(h) to look up the bridge key of h after
\* purge_bridges(h) has returned sends a new GetBridges request: it does
\* not return at once a list that is in the store, which would have been
\* requested before the purge.
C16_PurgeForcesFreshDiscovery ==
    [][\A c \in Slots :
          ( /\ calls[c].pc \in {"idle", "GetEpochKey", "Authenticate"}
            /\ LookedUp(calls'[c]) # {}
            /\ LookedUp(calls'[c]) \subseteq purged )
          => ( /\ calls'[c].pc = "GetBridges"
               /\ calls'[c].sent[Len(calls'[c].sent)].t = "GetBridges" )]_vars

\* C17: once get_cached_maybe_stale has returned the stale value its
\* refresh branch is gone.  The step that returns it writes nothing and
\* sends nothing; afterwards the call changes no more (its slot is only
\* freed, the store untouched in that step); and whatever an entry of the
\* store changes to is the whole record (value, miss time) of a call whose
\* fallback succeeds in that step.
C17_LoserDropped ==
    [][/\ \A c \in Slots :
             /\ (calls[c].res.how # "stale" /\ calls'[c].res.how = "stale")
                => ( /\ calls'[c].pc = "done"
                     /\ calls'[c].timer = "none"
                     /\ calls'[c].sent = calls[c].sent
                     /\ database' = database )
             /\ calls[c].res.how = "stale"
                => \/ calls'[c] = calls[c]
                   \/ /\ calls[c].pc = "done"
                      /\ calls'[c] = IdleCall
                      /\ database' = database
       /\ \A k \in DOMAIN database' :
             (k \notin DOMAIN database \/ database'[k] # database[k])
             => \E c \in Slots :
                   /\ Awaiting(calls[c])
                   /\ calls[c].res.how # "stale"
                   /\ CallKey(calls[c]) = k
                   /\ calls'[c].pc = "done"
                   /\ calls'[c].res.how = "fresh"
                   /\ database'[k] = [val |-> calls'[c].res.v,
                                      ts |-> calls[c].deadline,
                                      by |-> <<LogicalKey(calls[c]), calls[c].user>>]]_vars

\* a call has returned the stale value after its one request, and the
\* store holds under its key the record from before the call, while the
\* other caller's refresh of the key is still in flight
C17_Witness ==
    \E c \in Slots : \E d \in Slots \ {c} :
        /\ calls[c].pc = "done"
        /\ calls[c].res.how = "stale"
        /\ Len(calls[c].sent) = 1
        /\ calls[c].res.prior # {}
        /\ calls[c].res.prior = Prior(database, to_key(KEY_EXITS, calls[c].user))
        /\ Awaiting(calls[d])

\* C18: while force_sync is set, get_cached_stale yields nothing even over
\* a stored record, a call that starts sends its request whatever the age
\* of the record, and no call returns a stored value (a hit or a stale
\* value): it returns in the step its fallback is answered, with the
\* fallback's value or error.  With force_sync clear get_cached_stale
\* yields the stored record.
C18_ForceRefresh ==
    [][/\ \A u \in DOMAIN force_sync :
             LET k == to_key(KEY_EXITS, u)
             IN /\ force_sync[u] => get_cached_stale(database, force_sync[u], k) = {}
                /\ (~force_sync[u] /\ k \in DOMAIN database)
                   => get_cached_stale(database, force_sync[u], k) = {database[k]}
       /\ \A c \in Slots :
             LET cr == calls[c]
                 nx == calls'[c]
             IN (nx # cr /\ nx.op # "none" /\ force_sync[nx.user])
                => /\ nx.res.how \notin {"hit", "stale"}
                   /\ cr.pc = "idle" => (nx.pc = "GetExits" /\ Len(nx.sent) = 1)
                   /\ (nx.pc = "done" /\ cr.pc # "done")
                      => \E resp \in ExitsResponses :
                            /\ FallbackReplies(c, resp)
                            /\ nx.res.ok = Fallback(cr, resp).ok
                            /\ nx.res.v = Fallback(cr, resp).v]_vars

\* with force_sync set and a record within its ttl in the store, a call
\* has sent its request, its timer has elapsed and its stale branch has
\* found nothing: the call is waiting for the binder
C18_Witness ==
    \E c \in Slots :
        LET k == to_key(KEY_EXITS, calls[c].user)
        IN /\ calls[c].pc = "GetExits"
           /\ force_sync[calls[c].user]
           /\ calls[c].timer = "pending"
           /\ k \in DOMAIN database
           /\ clock < database[k].ts + TTL_EXITS

\* the token names a level and its signature is one by the long-term key
\* of that level over the token's digest
VerifiedAtOwnLevel(tok) ==
    /\ tok.level \in {"plus", "free"}
    /\ tok.level = "plus" => tok.unblinded_signature.key = "plus_pk"
    /\ tok.level = "free" => tok.unblinded_signature.key = "free_pk"
    /\ tok.unblinded_signature.msg = tok.unblinded_digest

\* C19: every token stored under the auth-token key, and every token
\* get_auth_token has returned, is verified at its own level; a token
\* acquired in the call has the level and the epoch of the Authenticate
\* request that succeeded (the last request sent) and the digest that
\* request was made from, and it is the token stored.
C19_TokenVerifiedAtOwnLevel ==
    /\ \A k \in DOMAIN database :
          database[k].by[1] = KEY_AUTH_TOKEN => VerifiedAtOwnLevel(database[k].val)
    /\ \A c \in Slots :
          ( /\ calls[c].op = "get_auth_token"
            /\ calls[c].pc = "done"
            /\ calls[c].res.ok )
          => /\ VerifiedAtOwnLevel(calls[c].res.v)
             /\ calls[c].res.how = "fresh"
                => LET req == calls[c].sent[Len(calls[c].sent)]
                   IN /\ req.t = "Authenticate"
                      /\ req.level = calls[c].res.v.level
                      /\ req.epoch = calls[c].res.v.epoch
                      /\ req.blinded_digest.digest = calls[c].res.v.unblinded_digest
                      /\ req.epoch = calls[c].sent[Len(calls[c].sent) - 1].epoch

\* get_auth_token has returned a token acquired at level "free", after
\* WrongLevel for "plus", and that token is the one in the store
C19_Witness ==
    \E c \in Slots :
        /\ calls[c].op = "get_auth_token"
        /\ calls[c].pc = "done"
        /\ calls[c].res.ok
        /\ calls[c].res.how = "fresh"
        /\ calls[c].res.v.level = "free"
        /\ calls[c].res.v.unblinded_signature.key = "free_pk"
        /\ Len(calls[c].sent) = 4
        /\ database[to_key(KEY_AUTH_TOKEN, calls[c].user)].val = calls[c].res.v

\* C20 (as claimed): for every key the timestamp of the stored record
\* never decreases from one write to the next.
C20_TimestampMonotone ==
    [][\A k \in DOMAIN database \cap DOMAIN database' :
          database'[k].ts >= database[k].ts]_vars

\* C20 (amended): a write stamps the record with the time at which the
\* writing call found its miss, which is not later than the write, and no
\* stored timestamp is ahead of the clock, so a call that starts after a
\* record was written never lowers its timestamp; the timestamp of a key
\* decreases only when the replaced record's refresh started while the
\* writer's refresh was already in flight.
C20_TimestampIsMissTime ==
    [][/\ \A k \in DOMAIN database : database[k].ts <= clock
       /\ \A c \in Slots :
             (calls[c].pc = "idle" /\ Awaiting(calls'[c]))
             => /\ calls'[c].deadline = clock
                /\ \A rec \in Prior(database, CallKey(calls'[c])) :
                      rec.ts <= calls'[c].deadline
       /\ \A k \in DOMAIN database' :
             (k \notin DOMAIN database \/ database'[k] # database[k])
             => \E c \in Slots :
                   /\ Awaiting(calls[c])
                   /\ CallKey(calls[c]) = k
                   /\ calls'[c].pc = "done"
                   /\ database'[k].ts = calls[c].deadline
                   /\ calls[c].deadline <= clock
                   /\ (k \in DOMAIN database /\ database'[k].ts < database[k].ts)
                      => ( /\ calls[c].deadline < database[k].ts
                           /\ database[k].ts <= clock )]_vars

\* a refresh that started earlier and finished later has replaced a
\* record by its own value with an older timestamp
C20_Witness ==
    \E c \in Slots :
        LET k == to_key(KEY_EXITS, calls[c].user)
        IN /\ calls[c].pc = "done"
           /\ calls[c].res.how = "fresh"
           /\ k \in DOMAIN database
           /\ database[k].val = calls[c].res.v
           /\ \E rec \in calls[c].res.prior : database[k].ts < rec.ts

====
